---- MODULE Spec2Model ----
(***************************************************************************)
(* Model of the article generator's resilient generation call              *)
(* (LanguageModelService.generate_text, and the older                      *)
(* ArticleGenerator.call_lm_studio_with_retry of main.py) and of its       *)
(* quality evaluation (ArticleQualityChecker, TextAnalyzer).               *)
(***************************************************************************)
EXTENDS Integers, Sequences, FiniteSets, TLC

\* ------------------------------------------------------------------------
\* Bounds of the model
\* ------------------------------------------------------------------------
\* largest max_retries a caller passes
MaxRetriesBound == 3
\* longest of the short texts (all texts up to this many lexemes are checked)
MaxTokens == 3
\* words per sentence of the generated articles
SentenceWords == 10

\* ------------------------------------------------------------------------
\* Values
\* ------------------------------------------------------------------------
\* Python's None
None == "None"

\* generated texts a backend can answer with (non-empty strings)
Texts == {"text_a", "text_b"}

\* exception classes a request can end with: the three requests exceptions the
\* handlers name, requests' ConnectTimeout (a ConnectionError and a Timeout),
\* and an exception outside the requests hierarchy
ExcClasses == {"Timeout", "ConnectionError", "ConnectTimeout", "OtherException"}

\* requests.exceptions: every class above but the last is a RequestException
IsRequestException(exc) == exc \in {"Timeout", "ConnectionError", "ConnectTimeout"}
IsTimeout(exc) == exc \in {"Timeout", "ConnectTimeout"}
IsConnectionError(exc) == exc \in {"ConnectionError", "ConnectTimeout"}

\* JSON bodies of a response, by shape:
\*   "malformed"      response.json() raises (not JSON)
\*   "not_object"     JSON that is no object (a list, a number)
\*   "no_choices"     an object without "choices" (or with an empty list)
\*   "no_message"     choices[0] is an object without message.content
\*   "null_content"   choices[0].message.content is null
\*   "content"        choices[0].message.content = content (which may be "")
Bodies == [shape : {"malformed", "not_object", "no_choices", "no_message",
                    "null_content"}, content : {""}]
            \cup [shape : {"content"}, content : Texts \cup {""}]

\* what one requests.post can end with
Outcomes == [kind : {"exception"}, exc : ExcClasses]
              \cup [kind : {"response"}, status : {200, 500}, body : Bodies]

VARIABLES
    impl,         \* which retry implementation runs: "service" or "legacy"
    pc,           \* position of the call: "idle", "loop", "await", "sleep",
                  \* "exit" (the loop was left), "done" (returned or raised)
    max_retries,  \* the retry budget of the call
    attempt,      \* loop variable of  for attempt in range(max_retries)
    in_flight,    \* requests sent and not yet answered
    sent,         \* requests sent so far by the call
    outcomes,     \* what each finished attempt ended with, in order
    waits,        \* the time.sleep arguments so far, in order
    result,       \* the value returned (None or a text); None before the return
    raised,       \* TRUE when an exception left the call
    textstat_lang,\* the language textstat is configured with (process-wide)
    q_pc,         \* the caller of the quality code: "idle" or "returned"
    last,         \* the call that has just returned, with what it returned
    first,        \* a call remembered for comparison with later ones
    between,      \* the languages of the checks made since `first`
    chk,          \* the comprehensive_check call of each request thread of
                  \* the web application
    req,          \* the generate_text call of each request thread
    art,          \* the generate_article call: its position, what generation
                  \* returned, the calls of the check and of the save so far,
                  \* and what it returned
    daily         \* the generate_daily_articles call: its position, the topic
                  \* selected, its translation, the results

gen_vars == <<impl, pc, max_retries, attempt, in_flight, sent, outcomes, waits,
              result, raised>>
q_vars == <<textstat_lang, q_pc, last, first, between>>

host_vars == <<chk, req, art, daily>>

vars == <<gen_vars, q_vars, host_vars>>

\* the threads the web server handles concurrent requests in
Threads == {1, 2}

\* no call
NoCall == [op |-> "none"]

\* ------------------------------------------------------------------------
\* LanguageModelService (src/src/services/lm_service.py)
\* ------------------------------------------------------------------------
\* _extract_response_content: the content, or None when the structure is wrong
\* or an exception is raised inside (both return None)
_extract_response_content(body) ==
    CASE body.shape = "not_object"   -> None   \* .get raises: except -> None
      [] body.shape = "no_choices"   -> None   \* falls through to return None
      [] body.shape = "no_message"   -> ""     \* the .get defaults: content = ""
      [] body.shape = "null_content" -> None   \* content is JSON null
      [] body.shape = "content"      -> body.content

\* Python truthiness of a content value
Truthy(content) == content # None /\ content # ""

\* a bug: a successful attempt does not return, the loop goes on
ServiceTry_NoReturn(o) ==
    IF o.kind = "exception" THEN [ret |-> FALSE, exc |-> o.exc]
    ELSE [ret |-> FALSE, exc |-> None]

\* a bug: the content is returned whenever there is one, the empty string
\* included
ServiceTry_ReturnsEmpty(o) ==
    IF o.kind = "exception" THEN [ret |-> FALSE, exc |-> o.exc]
    ELSE IF o.status # 200 THEN [ret |-> FALSE, exc |-> None]
    ELSE IF o.body.shape = "malformed" THEN [ret |-> FALSE, exc |-> "OtherException"]
    ELSE LET content == _extract_response_content(o.body)
         IN  IF content # None THEN [ret |-> TRUE, value |-> content]
             ELSE [ret |-> FALSE, exc |-> None]

\* The attempt's try block of generate_text: what the body of the loop does
\* with the outcome of requests.post.  Gives
\*   [ret |-> TRUE, value |-> text]   return content
\*   [ret |-> FALSE, exc |-> None]    fell out of the if (a warning was logged)
\*   [ret |-> FALSE, exc |-> class]   an exception was raised inside the try
ServiceTry(o) ==
    IF o.kind = "exception" THEN [ret |-> FALSE, exc |-> o.exc]
    ELSE IF o.status # 200 THEN [ret |-> FALSE, exc |-> None]
    ELSE IF o.body.shape = "malformed" THEN [ret |-> FALSE, exc |-> "OtherException"]
    ELSE LET content == _extract_response_content(o.body)
         IN  IF Truthy(content) THEN [ret |-> TRUE, value |-> content]
             ELSE [ret |-> FALSE, exc |-> None]

\* a bug: a timeout ends the loop
ServiceExcept_TimeoutBreaks(exc) ==
    IF IsTimeout(exc) THEN "break" ELSE "continue"

\* a bug: the  except Exception  clause is missing
ServiceExcept_OnlyRequests(exc) ==
    IF IsRequestException(exc) THEN "continue" ELSE "propagate"

\* The except clauses of generate_text:  except requests.RequestException,
\* except Exception.  "continue": handled, go on to the backoff; "propagate":
\* no clause matches, the exception leaves generate_text.
ServiceExcept(exc) ==
    IF IsRequestException(exc) THEN "continue"
    ELSE IF exc \in ExcClasses THEN "continue"
    ELSE "propagate"

\* ------------------------------------------------------------------------
\* ArticleGenerator.call_lm_studio_with_retry (src/main.py)
\* ------------------------------------------------------------------------
\* the try block: a 200 answer with a non-empty choices list returns
\* choices[0]["message"]["content"] whatever it is; a missing key raises
LegacyTry(o) ==
    IF o.kind = "exception" THEN [ret |-> FALSE, exc |-> o.exc]
    ELSE IF o.status # 200 THEN [ret |-> FALSE, exc |-> None]
    ELSE CASE o.body.shape = "malformed"    -> [ret |-> FALSE, exc |-> "OtherException"]
           [] o.body.shape = "not_object"   -> [ret |-> FALSE, exc |-> "OtherException"]
           [] o.body.shape = "no_choices"   -> [ret |-> FALSE, exc |-> None]
           [] o.body.shape = "no_message"   -> [ret |-> FALSE, exc |-> "OtherException"]
           [] o.body.shape = "null_content" -> [ret |-> TRUE, value |-> None]
           [] o.body.shape = "content"      -> [ret |-> TRUE, value |-> o.body.content]

\* except Timeout / except ConnectionError: break / except Exception
LegacyExcept(exc) ==
    IF IsTimeout(exc) THEN "continue"
    ELSE IF IsConnectionError(exc) THEN "break"
    ELSE IF exc \in ExcClasses THEN "continue"
    ELSE "propagate"

Try(i, o) == IF i = "service" THEN ServiceTry(o) ELSE LegacyTry(o)
Except(i, exc) == IF i = "service" THEN ServiceExcept(exc) ELSE LegacyExcept(exc)

\* a bug: the exponent is the number of the attempt counted from 1
RECURSIVE Pow2_FromOne(_)
Pow2_FromOne(n) == IF n = 0 THEN 2 ELSE 2 * Pow2_FromOne(n - 1)

\* wait_time = 2 ** attempt
RECURSIVE Pow2(_)
Pow2(n) == IF n = 0 THEN 1 ELSE 2 * Pow2(n - 1)

\* The whole loop of implementation i with budget n, from iteration `a` on,
\* when the requests end with os[1], os[2], ... in turn and ws are the waits
\* made so far: the requests sent, the waits and the value returned.  When os
\* has no outcome for a request the loop goes on to send, more is TRUE.
RECURSIVE RunLoop(_, _, _, _, _)
RunLoop(i, n, os, a, ws) ==
    IF a >= n
    THEN [sent |-> a, waits |-> ws, result |-> None, more |-> FALSE]
    ELSE IF a + 1 > Len(os)
    THEN [sent |-> a + 1, waits |-> ws, result |-> None, more |-> TRUE]
    ELSE LET t == Try(i, os[a + 1])
             h == IF ~t.ret /\ t.exc # None THEN Except(i, t.exc) ELSE "continue"
         IN  IF t.ret
             THEN [sent |-> a + 1, waits |-> ws, result |-> t.value, more |-> FALSE]
             ELSE IF h = "propagate"
             THEN [sent |-> a + 1, waits |-> ws, result |-> "raised", more |-> FALSE]
             ELSE IF h = "break"
             THEN [sent |-> a + 1, waits |-> ws, result |-> None, more |-> FALSE]
             ELSE RunLoop(i, n, os, a + 1,
                          IF a < n - 1 THEN Append(ws, Pow2(a)) ELSE ws)

GenInit ==
    /\ impl = "service"
    /\ pc = "idle"
    /\ max_retries = 0
    /\ attempt = 0
    /\ in_flight = 0
    /\ sent = 0
    /\ outcomes = <<>>
    /\ waits = <<>>
    /\ result = None
    /\ raised = FALSE

\* no request is being handled
HostIdle ==
    /\ chk = [t \in Threads |-> [pc |-> "idle"]]
    /\ req = [t \in Threads |-> [pc |-> "idle"]]
    /\ art = [pc |-> "idle"]
    /\ daily = [pc |-> "idle"]

\* no check made yet; textstat is as imported, with its default language
QIdle ==
    /\ textstat_lang = "en_US"
    /\ q_pc = "idle"
    /\ last = NoCall
    /\ first = NoCall
    /\ between = {}

\* generate_text(system_prompt, user_prompt, max_retries=n) is called, or
\* call_lm_studio_with_retry with n configured as article_settings.max_retries
Call(i, n) ==
    /\ pc = "idle"
    /\ impl' = i
    /\ max_retries' = n
    /\ attempt' = 0
    /\ pc' = "loop"
    /\ UNCHANGED <<in_flight, sent, outcomes, waits, result, raised>>
    /\ UNCHANGED <<q_vars, host_vars>>

\* a bug: the next request is sent while the one before is still awaited
SendRequest_Speculative ==
    /\ pc \in {"loop", "await"}
    /\ sent < max_retries
    /\ in_flight' = in_flight + 1
    /\ sent' = sent + 1
    /\ pc' = "await"
    /\ UNCHANGED <<impl, max_retries, attempt, outcomes, waits, result, raised>>
    /\ UNCHANGED <<q_vars, host_vars>>

\* a bug: the loop makes one iteration more (range(max_retries + 1))
SendRequest_OneMore ==
    /\ pc = "loop"
    /\ attempt <= max_retries
    /\ in_flight' = in_flight + 1
    /\ sent' = sent + 1
    /\ pc' = "await"
    /\ UNCHANGED <<impl, max_retries, attempt, outcomes, waits, result, raised>>
    /\ UNCHANGED <<q_vars, host_vars>>

\* for attempt in range(max_retries): ... requests.post(...)
SendRequest ==
    /\ pc = "loop"
    /\ attempt < max_retries
    /\ in_flight' = in_flight + 1
    /\ sent' = sent + 1
    /\ pc' = "await"
    /\ UNCHANGED <<impl, max_retries, attempt, outcomes, waits, result, raised>>
    /\ UNCHANGED <<q_vars, host_vars>>

\* requests.post ends with outcome o; the rest of the loop body runs up to the
\* return, the propagating exception, the break, the sleep or the next iteration
Receive(o) ==
    /\ pc = "await"
    /\ in_flight' = in_flight - 1
    /\ outcomes' = Append(outcomes, o)
    /\ LET t == Try(impl, o)
           h == IF ~t.ret /\ t.exc # None THEN Except(impl, t.exc) ELSE "continue"
       IN  IF t.ret
           THEN /\ result' = t.value
                /\ pc' = "done"
                /\ UNCHANGED <<attempt, waits, raised>>
           ELSE IF h = "propagate"
           THEN /\ raised' = TRUE
                /\ pc' = "done"
                /\ UNCHANGED <<attempt, waits, result>>
           ELSE IF h = "break"
           THEN /\ pc' = "exit"
                /\ UNCHANGED <<attempt, waits, result, raised>>
           ELSE IF attempt < max_retries - 1
           THEN /\ waits' = Append(waits, Pow2(attempt))
                /\ pc' = "sleep"
                /\ UNCHANGED <<attempt, result, raised>>
           ELSE /\ attempt' = attempt + 1
                /\ pc' = "loop"
                /\ UNCHANGED <<waits, result, raised>>
    /\ UNCHANGED <<impl, max_retries, sent>>
    /\ UNCHANGED <<q_vars, host_vars>>

\* time.sleep(wait_time) returns; the next iteration starts
Wake ==
    /\ pc = "sleep"
    /\ attempt' = attempt + 1
    /\ pc' = "loop"
    /\ UNCHANGED <<impl, max_retries, in_flight, sent, outcomes, waits, result, raised>>
    /\ UNCHANGED <<q_vars, host_vars>>

\* a bug: the  return None  stands in the break path only, a loop that runs
\* out of attempts never returns
ReturnNone_OnlyAfterBreak ==
    /\ pc = "exit"
    /\ result' = None
    /\ pc' = "done"
    /\ UNCHANGED <<impl, max_retries, attempt, in_flight, sent, outcomes, waits, raised>>
    /\ UNCHANGED <<q_vars, host_vars>>

\* the loop is exhausted, or was left by break: return None
ReturnNone ==
    /\ \/ pc = "loop" /\ attempt >= max_retries
       \/ pc = "exit"
    /\ result' = None
    /\ pc' = "done"
    /\ UNCHANGED <<impl, max_retries, attempt, in_flight, sent, outcomes, waits, raised>>
    /\ UNCHANGED <<q_vars, host_vars>>

GenNext ==
    \/ \E i \in {"service", "legacy"}, n \in -1..MaxRetriesBound : Call(i, n)
    \/ SendRequest
    \/ \E o \in Outcomes : Receive(o)
    \/ Wake
    \/ ReturnNone

\* the state after construction: no call made yet
Init == GenInit /\ QIdle /\ HostIdle

SpecGen == Init /\ [][GenNext]_vars

\* the call under the conditions it runs in: every requests.post answers or
\* raises (at the latest when its timeout expires), every time.sleep returns,
\* and the interpreter goes on with the statement it is at
SpecGenFair ==
    /\ Init /\ [][GenNext]_vars
    /\ WF_vars(SendRequest)
    /\ WF_vars(\E o \in Outcomes : Receive(o))
    /\ WF_vars(Wake)
    /\ WF_vars(ReturnNone)

\* ------------------------------------------------------------------------
\* Article text
\* ------------------------------------------------------------------------
\* A text is a sequence of lexemes: words (lower-case Latin transliterations
\* of the article's words, one letter per letter, so Len gives the length the
\* code sees), the sentence terminator ".", the heading marker "#", and the
\* line break NL ("\n") and blank line PARA ("\n\n").  Lexemes on a line are
\* separated by one space, except that "." is written directly after what
\* precedes it.  No two breaks are adjacent and a text neither starts nor
\* ends with a break (what str.strip and the dropping of empty pieces remove).
NL == "NL"
PARA == "PARA"
HASH == "#"
DOT == "."

\* language_stop_words['ru'] and ['ua'], transliterated
StopWordsRu == {"i", "v", "na", "s", "po", "dlq", "ot", "k", "za", "iz", "o",
                "cto", "kak", "eto"}
StopWordsUa == {"y", "v", "na", "z", "po", "dlq", "vid", "do", "za", "yz", "pro",
                "wo", "qk", "ce"}

\* the words of the modelled texts: stop words, a three-letter word that is no
\* stop word, words of four to six letters, long words, and a capitalised word
Vocabulary == {"i", "na", "dlq", "eto", "vid", "pro", "boj", "igra", "privod",
               "Privod", "zawita", "strajkbol", "snarqzenie", "zagolovok"}

\* more words of the subject, none of them a stop word, all of four letters
\* and more
KeywordWords ==
    <<"avtomat", "batareq", "vintovka", "granata", "zatvor", "lazer", "magazin",
      "optika", "pistolet", "snajper", "taktika", "ustav", "fonarq", "warik",
      "wlem", "qwik", "maska", "komanda", "poligon", "raciq", "oruzie", "pricel",
      "stvol">>

\* str.lower
Lower(w) == IF w = "Privod" THEN "privod" ELSE w

\* syllables of a word as the hyphenation dictionary counts them (pyphen
\* positions + 1); here the number of vowels of the word, at least 1
Syllables(w) ==
    CASE w \in {"i", "na", "dlq", "vid", "pro", "boj", "wlem", "stvol"} -> 1
      [] w \in {"eto", "igra", "privod", "Privod", "strajkbol", "zatvor", "lazer",
                "snajper", "ustav", "fonarq", "warik", "qwik", "maska",
                "pricel"} -> 2
      [] w \in {"zawita", "avtomat", "vintovka", "granata", "magazin", "optika",
                "pistolet", "taktika", "komanda", "poligon", "raciq"} -> 3
      [] w \in {"zagolovok", "batareq", "oruzie"} -> 4
      [] w \in {"snarqzenie"} -> 5
      [] OTHER -> 1

IsBreak(t) == t \in {NL, PARA}
IsWord(t) == t \notin {NL, PARA, HASH, DOT}

Min(a, b) == IF a <= b THEN a ELSE b
Max(a, b) == IF a >= b THEN a ELSE b

\* the sum of f[lo..hi], by halving
RECURSIVE SumOver(_, _, _)
SumOver(f, lo, hi) ==
    IF lo > hi THEN 0
    ELSE IF lo = hi THEN f[lo]
    ELSE LET mid == (lo + hi) \div 2
         IN  SumOver(f, lo, mid) + SumOver(f, mid + 1, hi)

\* the lexeme before position i that is no break, 0 when there is none
PrevNonBreak(c, i) ==
    IF i = 1 THEN 0
    ELSE IF ~IsBreak(c[i - 1]) THEN i - 1
    ELSE IF i = 2 THEN 0 ELSE i - 2

\* position i opens a piece of re.split(r'[.!?]+', content) that is not blank
SentenceStart(c, i) ==
    /\ c[i] \notin {DOT, NL, PARA}
    /\ LET p == PrevNonBreak(c, i) IN p = 0 \/ c[p] = DOT

\* position i opens a non-blank piece of content.split('\n\n')
ParagraphStart(c, i) == ~IsBreak(c[i]) /\ (i = 1 \/ c[i - 1] = PARA)

\* position i is the first lexeme of its line
LineStart(c, i) == i = 1 \/ IsBreak(c[i - 1])

\* position i opens a match of  ^#+\s+.+$  (re.MULTILINE): a "#" that opens
\* a line and is followed by white space and something more; \s+ takes line
\* breaks too, so a "#" alone on its line takes the next line into its match,
\* and a "#" opening that next line is inside the match, not a match itself
RECURSIVE HeadingAt(_, _)
HeadingAt(c, i) ==
    /\ c[i] = HASH
    /\ LineStart(c, i)
    /\ i < Len(c)
    /\ c[i + 1] # DOT
    /\ ~(i >= 3 /\ IsBreak(c[i - 1]) /\ c[i - 2] = HASH /\ HeadingAt(c, i - 2))

\* ------------------------------------------------------------------------
\* ArticleQualityChecker (src/src/services/quality_checker.py)
\* ------------------------------------------------------------------------
min_word_count == 500
\* min_readability = 5.0; scores are kept in hundredths
min_readability == 5
min_headings == 3
min_paragraphs == 5
\* word_counts.most_common(20)
TopKeywords == 20
\* metrics.get('keywords', [])[:15] of the rendered report
ReportKeywords == 15

\* a quotient a/b kept exact
Ratio(a, b) == [num |-> a, den |-> b]

\* _analyze_structure: the counts of the text.  The modelled texts have no
\* "*" and no "-", so bold_count and list_item_count are 0.
_analyze_structure(content) ==
    LET word_count == Cardinality({i \in DOMAIN content : IsWord(content[i])})
        sentence_count ==
            Cardinality({i \in DOMAIN content : SentenceStart(content, i)})
    IN  [word_count |-> word_count,
         sentence_count |-> sentence_count,
         avg_sentence_length |->
             IF sentence_count > 0 THEN Ratio(word_count, sentence_count)
             ELSE Ratio(0, 1),
         paragraphs_count |->
             Cardinality({i \in DOMAIN content : ParagraphStart(content, i)}),
         headings_count |->
             Cardinality({i \in DOMAIN content : HeadingAt(content, i)}),
         bold_count |-> 0,
         list_item_count |-> 0]

\* --- textstat (the library the checker calls; its state is process-wide) ---
\* the language textstat is configured with when the process starts
TextstatDefaultLang == "en_US"

\* textstat.lexicon_count: the words left after punctuation is removed
lexicon_count(content) ==
    Cardinality({i \in DOMAIN content : IsWord(content[i])})

\* textstat.sentence_count: the sentences of the text, at least 1
sentence_count(content) ==
    Max(1, Cardinality({i \in DOMAIN content : SentenceStart(content, i)}))

\* textstat.syllable_count
syllable_count(content) ==
    SumOver([i \in DOMAIN content |->
                IF IsWord(content[i]) THEN Syllables(content[i]) ELSE 0],
            1, Len(content))

\* textstat.smog_index: a function of the language, the sentences and the
\* words of three syllables and more; kept as that triple, not evaluated
smog_index(content, lang) ==
    [lang |-> lang,
     sentences |-> sentence_count(content),
     polysyllables |->
         Cardinality({i \in DOMAIN content :
                         IsWord(content[i]) /\ Syllables(content[i]) >= 3})]

\* round(10 * a / b) half up, 0 when b = 0 (textstat's averages are rounded to
\* one decimal and are 0.0 on a division by zero)
Tenths(a, b) == IF b = 0 THEN 0 ELSE (20 * a + b) \div (2 * b)

\* the Flesch coefficients of the configured language, times 1000: textstat
\* has a table for 'ru'; 'uk' and 'en_US' have none and use the English one
FleschCfg(lang) ==
    IF lang = "ru" THEN [base |-> 206835, sentence |-> 1300, syllable |-> 60100]
    ELSE [base |-> 206835, sentence |-> 1015, syllable |-> 84600]

\* textstat.flesch_reading_ease in hundredths, under the configured language:
\* base - sentence * (words per sentence) - syllable * (syllables per word)
flesch_reading_ease(content, lang) ==
    LET words == lexicon_count(content)
        asl == Tenths(words, IF words = 0 THEN 0 ELSE sentence_count(content))
        asw == Tenths(syllable_count(content), words)
        cfg == FleschCfg(lang)
        f == 10 * cfg.base - cfg.sentence * asl - cfg.syllable * asw
    IN  (f + 50) \div 100

\* textstat.set_lang of _analyze_readability
SetLang(language) ==
    IF language = "ru" THEN "ru"
    ELSE IF language = "ua" THEN "uk"
    ELSE "ru"

readability_level(flesch_score) ==
    IF flesch_score >= 8000 THEN "very easy"
    ELSE IF flesch_score >= 7000 THEN "easy"
    ELSE IF flesch_score >= 6000 THEN "medium"
    ELSE IF flesch_score >= 5000 THEN "moderately hard"
    ELSE "hard"

\* _analyze_readability once textstat is configured with lang; failed: an
\* exception was raised inside the try (the handler gives score 0)
_analyze_readability(content, lang, failed) ==
    IF failed
    THEN [readability_score |-> 0, readability_level |-> "undetermined"]
    ELSE CHOOSE m \in
             {[readability_score |-> flesch_score,
               readability_level |-> readability_level(flesch_score),
               smog_index |-> smog_index(content, lang),
               syllable_count |-> syllable_count(content)] :
                 flesch_score \in {flesch_reading_ease(content, lang)}} : TRUE

\* language_stop_words.get(language, set())
stop_words(language) ==
    IF language = "ru" THEN StopWordsRu
    ELSE IF language = "ua" THEN StopWordsUa
    ELSE {}

\* the positions of the words  re.findall(r'\b\w{3,}\b', content.lower())
\* keeps after the stop words are removed (filtered_words)
FilteredPositions(content, language) ==
    {i \in DOMAIN content :
        /\ IsWord(content[i])
        /\ Len(content[i]) >= 3
        /\ Lower(content[i]) \notin stop_words(language)}

\* Counter(filtered_words): for each word its count and where it is first
\* seen (a Counter keeps its keys in the order they were inserted)
Counter(content, pos) ==
    {[word |-> w,
      count |-> Cardinality({i \in pos : Lower(content[i]) = w}),
      first |-> CHOOSE i \in pos :
                    /\ Lower(content[i]) = w
                    /\ \A j \in pos : j < i => Lower(content[j]) # w] :
        w \in {Lower(content[i]) : i \in pos}}

\* a bug: words of equal count come in the reverse of the order they were
\* first seen in (a sort that is not stable)
MostCommon_Unstable(word_counts, n) ==
    LET rank(e) == Cardinality({v \in word_counts :
                       \/ v.count > e.count
                       \/ v.count = e.count /\ v.first > e.first})
    IN  [k \in 1..Min(n, Cardinality(word_counts)) |->
            CHOOSE e \in word_counts : rank(e) = k - 1]

\* Counter.most_common(n): by falling count, equal counts in the order of
\* first occurrence
MostCommon(word_counts, n) ==
    LET rank(e) == Cardinality({v \in word_counts :
                       \/ v.count > e.count
                       \/ v.count = e.count /\ v.first < e.first})
    IN  [k \in 1..Min(n, Cardinality(word_counts)) |->
            CHOOSE e \in word_counts : rank(e) = k - 1]

\* _extract_keywords; failed: an exception was raised inside the try
_extract_keywords(content, language, failed) ==
    IF failed
    THEN [keywords |-> <<>>, keyword_density |-> <<>>, keyword_count |-> 0]
    ELSE CHOOSE m \in
             {[keywords |-> [k \in DOMAIN top_keywords |-> top_keywords[k].word],
               keyword_density |->
                   [k \in DOMAIN top_keywords |->
                       Ratio(top_keywords[k].count, Cardinality(filtered_words))],
               keyword_count |-> Len(top_keywords)] :
                 filtered_words \in {FilteredPositions(content, language)},
                 top_keywords \in
                     {MostCommon(Counter(content,
                                         FilteredPositions(content, language)),
                                 TopKeywords)}} : TRUE

\* _generate_html_report: the values the page shows, read from the metrics
\* it is given (a missing key gives the default of metrics.get)
_generate_html_report(metrics) ==
    [summary |->
         IF /\ metrics.has_sufficient_length
            /\ metrics.has_good_readability
            /\ metrics.has_good_structure
         THEN "meets all criteria"
         ELSE IF ~metrics.has_sufficient_length THEN "too short"
         ELSE IF ~metrics.has_good_readability THEN "hard to read"
         ELSE "insufficient structure",
     word_count |-> metrics.word_count,
     word_count_good |-> metrics.word_count >= min_word_count,
     readability |-> metrics.readability_score,
     readability_good |-> metrics.readability_score >= 100 * min_readability,
     readability_level |-> metrics.readability_level,
     headings |-> metrics.headings_count,
     headings_good |-> metrics.headings_count >= min_headings,
     paragraphs |-> metrics.paragraphs_count,
     paragraphs_good |-> metrics.paragraphs_count >= min_paragraphs,
     sentence_count |-> metrics.sentence_count,
     avg_sentence_length |-> metrics.avg_sentence_length,
     bold_count |-> metrics.bold_count,
     list_item_count |-> metrics.list_item_count,
     keywords |-> SubSeq(metrics.keywords, 1, Min(ReportKeywords, Len(metrics.keywords))),
     errors |-> IF "errors" \in DOMAIN metrics THEN metrics.errors ELSE <<>>]

\* the dictionary left by updating an empty one with the records of ds in
\* turn (dict.update, d[k] = v): a key has the value of the last record with it
Updated(ds) ==
    [k \in UNION {DOMAIN ds[i] : i \in DOMAIN ds} |->
        LET last_i == CHOOSE i \in DOMAIN ds :
                          /\ k \in DOMAIN ds[i]
                          /\ \A j \in DOMAIN ds : j > i => k \notin DOMAIN ds[j]
        IN  ds[last_i][k]]

\* an entry of error_messages: which threshold, and the value found
Error(kind, value) == [kind |-> kind, value |-> value]

\* the sub-analyses an exception can be raised in, or "none"
Faults == {"none", "structure", "readability", "keywords", "report"}

\* The body of comprehensive_check after the three sub-analyses returned
\* their metrics: the threshold flags, error_messages, the rendered report.
Aggregate(structure_metrics, readability_metrics, keyword_metrics, fault) ==
    LET word_count == structure_metrics.word_count
        readability_score == readability_metrics.readability_score
        headings_count == structure_metrics.headings_count
        paragraphs_count == structure_metrics.paragraphs_count
        e1 == IF word_count < min_word_count
              THEN <<Error("length", word_count)>> ELSE <<>>
        e2 == IF readability_score < 100 * min_readability
              THEN Append(e1, Error("readability", readability_score)) ELSE e1
        e3 == IF headings_count < min_headings
              THEN Append(e2, Error("headings", headings_count)) ELSE e2
        e4 == IF paragraphs_count < min_paragraphs
              THEN Append(e3, Error("paragraphs", paragraphs_count)) ELSE e3
        metrics ==
            Updated(<<structure_metrics,
                      [has_sufficient_length |-> word_count >= min_word_count],
                      readability_metrics,
                      [has_good_readability |->
                           readability_score >= 100 * min_readability],
                      keyword_metrics,
                      [has_good_structure |-> headings_count >= min_headings],
                      [has_enough_paragraphs |->
                           paragraphs_count >= min_paragraphs]>>)
    IN  IF fault = "report"
        THEN [passed |-> FALSE, report |-> [errors |-> <<Error("analysis", fault)>>]]
        ELSE [passed |-> /\ metrics.has_sufficient_length
                         /\ metrics.has_good_readability
                         /\ metrics.has_good_structure
                         /\ metrics.has_enough_paragraphs,
              report |-> Updated(<<metrics,
                                   [html_report |-> _generate_html_report(metrics)],
                                   [errors |-> e4]>>)]

\* comprehensive_check(content, language) when the exception `fault` is raised
\* (or none is); lang is what textstat is configured with during the check.
\* Gives the pair returned.
comprehensive_check(content, language, fault, lang) ==
    IF fault = "structure"
    THEN [passed |-> FALSE, report |-> [errors |-> <<Error("analysis", fault)>>]]
    ELSE CHOOSE r \in
             {Aggregate(structure_metrics, readability_metrics, keyword_metrics,
                        fault) :
                 structure_metrics \in {_analyze_structure(content)},
                 readability_metrics \in
                     {_analyze_readability(content, lang, fault = "readability")},
                 keyword_metrics \in
                     {_extract_keywords(content, language, fault = "keywords")}} :
                 TRUE

\* ------------------------------------------------------------------------
\* TextAnalyzer (src/src/services/text_analyzer.py)
\* ------------------------------------------------------------------------
\* text.split(): a word of the split starts at each lexeme that is no break,
\* except a "." written after another lexeme (it belongs to that word)
SplitStart(text, i) ==
    /\ ~IsBreak(text[i])
    /\ text[i] = DOT => (i = 1 \/ IsBreak(text[i - 1]))

\* the "."s written directly after position i
RECURSIVE DotsAfter(_, _)
DotsAfter(text, i) ==
    IF i < Len(text) /\ text[i + 1] = DOT THEN 1 + DotsAfter(text, i + 1) ELSE 0

\* len(word) of the split word starting at i: the lexeme and the "."s after it
SplitLen(text, i) == Len(text[i]) + DotsAfter(text, i)

\* max(0, min(10, num/den)), den > 0
Clamp(num, den) == Ratio(Max(0, Min(10 * den, num)), den)

\* The arithmetic of _calculate_readability, as an exact quotient.  With S
\* sentences, W words, L characters in the words and C words of more than 6
\* characters:
\*   sentence_score   = max(0, 10 - (W/S)/5)   = max(0, 50S - W) / 5S
\*   word_score       = max(0, 10 - L/W)       = max(0, 10W - L) / W
\*   complexity_score = max(0, 10 - 30 C/W)    = max(0, 10W - 30C) / W
\*   final_score      = 0.3, 0.3, 0.4 of them, + 2.0 when S > 5
\* all over the denominator 50 S W.  A denominator 0 is a division by zero
\* (Python raises ZeroDivisionError).
Score(sentences, words, chars, complex_words) ==
    LET den == 50 * sentences * words
        weighted ==
            3 * Max(0, 50 * sentences - words) * words
            + 15 * sentences * Max(0, 10 * words - chars)
            + 20 * sentences * Max(0, 10 * words - 30 * complex_words)
        final_score == IF sentences > 5 THEN weighted + 2 * den ELSE weighted
    IN  IF den = 0 THEN Ratio(0, 0) ELSE Clamp(final_score, den)

\* sentences = the non-blank pieces of re.split(r'[.!?]+', text), words =
\* text.split(), and the score of their counts
FinalScore(text) ==
    CHOOSE r \in
        {Score(sentences, words, chars, complex_words) :
            sentences \in
                {Cardinality({i \in DOMAIN text : SentenceStart(text, i)})},
            words \in {Cardinality({i \in DOMAIN text : SplitStart(text, i)})},
            chars \in
                {SumOver([i \in DOMAIN text |->
                             IF IsBreak(text[i]) THEN 0 ELSE Len(text[i])],
                         1, Len(text))},
            complex_words \in
                {Cardinality({i \in DOMAIN text :
                                 SplitStart(text, i) /\ SplitLen(text, i) > 6})}} :
            TRUE

\* a bug: neither the test for an empty text nor the exception handler
CalculateReadability_Unguarded(text) == FinalScore(text)

\* _calculate_readability: 0.0 for a text without sentences or words, and
\* 0.0 when the arithmetic raises (the except clause)
_calculate_readability(text) ==
    IF \/ \A i \in DOMAIN text : ~SentenceStart(text, i)
       \/ \A i \in DOMAIN text : ~SplitStart(text, i)
    THEN Ratio(0, 1)
    ELSE CHOOSE r \in
             {IF score.den = 0 THEN Ratio(0, 1) ELSE score :
                 score \in {FinalScore(text)}} : TRUE

\* the words of  re.sub(r'[^\w\s]', '', text.lower()).split(): the positions
\* of the lexemes that are words ("#" and "." vanish)
CleanWords(text) == {i \in DOMAIN text : IsWord(text[i])}

\* word_freq of _find_overused_words and _analyze_keywords: the words of more
\* than 3 letters with their counts and where each is first seen (a dict keeps
\* its keys in the order they were inserted)
WordFreq(text) ==
    {[word |-> w,
      count |-> Cardinality({i \in CleanWords(text) : Lower(text[i]) = w}),
      first |-> CHOOSE i \in CleanWords(text) :
                    /\ Lower(text[i]) = w
                    /\ \A j \in CleanWords(text) : j < i => Lower(text[j]) # w] :
        w \in {Lower(text[i]) : i \in {j \in CleanWords(text) : Len(text[j]) > 3}}}

\* a bug: a word at exactly 5% is taken too (>= for >)
Overused_AtThreshold(word_freq, total_words) ==
    {e \in word_freq : 20 * e.count >= total_words}

\* the entries of word_freq whose count exceeds 5% of all the words
\* (freq > total_words * 0.05, that is 20 * freq > total_words)
Overused(word_freq, total_words) ==
    {e \in word_freq : 20 * e.count > total_words}

\* _find_overused_words: the overused words in the order they are first seen
_find_overused_words(text) ==
    CHOOSE r \in
        {[k \in 1..Cardinality(over) |->
             (CHOOSE e \in over :
                  Cardinality({v \in over : v.first < e.first}) = k - 1).word] :
            over \in {Overused(WordFreq(text), Cardinality(CleanWords(text)))}} :
            TRUE

\* _analyze_keywords: for each word of word_freq its share of total_words,
\* the number of all the words of the text ({} when there is none)
_analyze_keywords(text) ==
    CHOOSE r \in
        {{[word |-> e.word, density |-> Ratio(e.count, total_words)] :
             e \in word_freq} :
            word_freq \in {WordFreq(text)},
            total_words \in {Cardinality(CleanWords(text))}} : TRUE

\* ------------------------------------------------------------------------
\* The texts checked
\* ------------------------------------------------------------------------
Alphabet == {"na", "privod", "strajkbol", DOT, HASH, NL, PARA}

\* no two breaks adjacent, none at either end
Canonical(t) ==
    /\ Len(t) > 0 => ~IsBreak(t[1]) /\ ~IsBreak(t[Len(t)])
    /\ \A i \in 1..(Len(t) - 1) : ~(IsBreak(t[i]) /\ IsBreak(t[i + 1]))

ShortTexts ==
    {t \in UNION {[1..n -> Alphabet] : n \in 0..MaxTokens} : Canonical(t)}

\* n words taken in turn from pat, a "." after every wps-th and after the last
Body(n, wps, pat) ==
    LET total == n + (n + wps - 1) \div wps
    IN  [j \in 1..total |->
            IF j = total \/ (j % (wps + 1)) = 0 THEN DOT
            ELSE pat[(((j - (j \div (wps + 1))) - 1) % Len(pat)) + 1]]

\* paragraphs k..p of an article, PARA between them; the first h paragraphs
\* open with a heading line, paragraph k holds words[k] body words
RECURSIVE Paragraphs(_, _, _, _, _, _)
Paragraphs(k, p, h, words, wps, pat) ==
    LET heading == IF k <= h THEN <<HASH, "zagolovok", NL>> ELSE <<>>
        para == heading \o Body(words[k], wps, pat)
    IN  IF k = p THEN para
        ELSE para \o <<PARA>> \o Paragraphs(k + 1, p, h, words, wps, pat)

\* an article of n words in p paragraphs, h of them under a heading
Article(h, p, n, wps, pat) ==
    LET q == (n - h) \div p
        words == [k \in 1..p |-> IF k < p THEN q ELSE (n - h) - q * (p - 1)]
    IN  Paragraphs(1, p, h, words, wps, pat)

\* the wording of the articles: one word throughout (easy to read), one long
\* word throughout (hard to read), and short words with a rare long one
MonoPattern == <<"privod">>
HardPattern == <<"snarqzenie">>
PlainPattern == [i \in 1..25 |-> IF i = 25 THEN "strajkbol" ELSE "na"]
Patterns == {MonoPattern, HardPattern, PlainPattern}

\* articles on both sides of each threshold of the checker
Articles ==
    {Article(h, p, n, SentenceWords, pat) :
        h \in {min_headings - 1, min_headings},
        p \in {min_paragraphs - 1, min_paragraphs},
        n \in {min_word_count - 1, min_word_count},
        pat \in Patterns}

\* one sentence of n different words, KeywordWords from the rot-th on, and a
\* second sentence that repeats some of them: again[k] = d repeats the word
\* d places before the last
KeywordText(n, rot, again) ==
    LET word(i) == KeywordWords[((i + rot - 1) % Len(KeywordWords)) + 1]
    IN  [i \in 1..n |-> word(i)] \o <<DOT>>
        \o [k \in DOMAIN again |-> word(n - again[k])]
        \o (IF again = <<>> THEN <<>> ELSE <<DOT>>)

\* which words are repeated: none (all counts equal), the last twice, the
\* last and an early one twice each, the last three once, twice, three times
Repeats == {<<>>, <<0, 0>>, <<0, 5, 5, 0>>, <<0, 1, 2, 1, 0, 0>>}

\* texts with fewer, as many and more different words than most_common keeps
KeywordTexts ==
    {KeywordText(n, rot, again) :
        n \in (TopKeywords - 1)..(TopKeywords + 2), rot \in 0..1,
        again \in Repeats}

\* one sentence: the first n of KeywordWords, each `copies` times, the first
\* of them `extra` times more, and `shorts` times the two-letter word "na"
OveruseText(n, copies, extra, shorts) ==
    [i \in 1..(n * copies) |-> KeywordWords[((i - 1) % n) + 1]]
    \o [i \in 1..extra |-> KeywordWords[1]]
    \o [i \in 1..shorts |-> "na"]
    \o <<DOT>>

\* texts of about 20 and about 40 words, whose words are each just below, at
\* and just above one twentieth of the text
OveruseTexts ==
    {OveruseText(n, copies, extra, shorts) :
        n \in (TopKeywords - 1)..(TopKeywords + 1), copies \in 1..2,
        extra \in 0..1, shorts \in 0..2}

\* short and long words, stop words of either language among them
FilterWords == {"na", "dlq", "eto", "vid", "pro", "boj", "igra", "Privod"}

\* one sentence of two of these words
FilterTexts == {<<v, w, DOT>> : v \in FilterWords, w \in FilterWords}

\* k sections under a capitalised line without markup, then m sections under
\* a line with "#"; each section is its heading line and one sentence
RECURSIVE Sections(_, _)
Sections(k, m) ==
    LET plain == <<"Privod", "igra", NL, "na", "privod", DOT>>
        marked == <<HASH, "zagolovok", NL, "na", "privod", DOT>>
    IN  IF k + m = 0 THEN <<>>
        ELSE (IF k > 0 THEN plain ELSE marked)
             \o (IF k + m = 1 THEN <<>> ELSE <<PARA>>)
             \o (IF k > 0 THEN Sections(k - 1, m) ELSE Sections(k, m - 1))

HeadingTexts == {Sections(k, m) : k \in 1..min_headings, m \in 0..1}

Contents ==
    ShortTexts \cup Articles \cup KeywordTexts \cup OveruseTexts \cup FilterTexts
        \cup HeadingTexts

\* the language codes passed: the two supported ones and an unknown one
Languages == {"ru", "ua", "en"}

\* ------------------------------------------------------------------------
\* Calls of the quality code
\* ------------------------------------------------------------------------
\* what textstat is configured with once _analyze_readability has run its
\* set_lang for `language`; current is what it was configured with before
\* a bug: no set_lang in the else branch, an unknown language code leaves
\* textstat as the check before it configured it
ConfiguredLang_NoDefault(language, current) ==
    IF language \in {"ru", "ua"} THEN SetLang(language) ELSE current

ConfiguredLang(language, current) == SetLang(language)

\* comprehensive_check(c, l) is called and returns; the exception `f` is
\* raised inside (f = "structure" is raised before textstat is touched)
Check(c, l, f) ==
    /\ q_pc = "idle"
    /\ textstat_lang' = IF f = "structure" THEN textstat_lang
                        ELSE ConfiguredLang(l, textstat_lang)
    /\ \E r \in {comprehensive_check(c, l, f, textstat_lang')} :
           last' = [op |-> "check", content |-> c, language |-> l, fault |-> f,
                    passed |-> r.passed, report |-> r.report]
    /\ between' = IF first = NoCall THEN between ELSE between \cup {l}
    /\ q_pc' = "returned"
    /\ UNCHANGED first
    /\ UNCHANGED <<gen_vars, host_vars>>

\* TextAnalyzer._calculate_readability(t) is called and returns or raises
Readability(t) ==
    /\ q_pc = "idle"
    /\ \E r \in {_calculate_readability(t)} :
           last' = [op |-> "readability", text |-> t, score |-> r,
                    raised |-> r.den = 0]
    /\ q_pc' = "returned"
    /\ UNCHANGED <<textstat_lang, first, between>>
    /\ UNCHANGED <<gen_vars, host_vars>>

\* TextAnalyzer._find_overused_words(t) is called and returns
FindOverused(t) ==
    /\ q_pc = "idle"
    /\ last' = [op |-> "overused", text |-> t, words |-> _find_overused_words(t)]
    /\ q_pc' = "returned"
    /\ UNCHANGED <<textstat_lang, first, between>>
    /\ UNCHANGED <<gen_vars, host_vars>>

\* TextAnalyzer._analyze_keywords(t) is called and returns
AnalyzeKeywords(t) ==
    /\ q_pc = "idle"
    /\ last' = [op |-> "keywords", text |-> t, density |-> _analyze_keywords(t)]
    /\ q_pc' = "returned"
    /\ UNCHANGED <<textstat_lang, first, between>>
    /\ UNCHANGED <<gen_vars, host_vars>>

\* the caller is done with what was returned
Forget ==
    /\ q_pc = "returned"
    /\ q_pc' = "idle"
    /\ last' = NoCall
    /\ UNCHANGED <<textstat_lang, first, between>>
    /\ UNCHANGED <<gen_vars, host_vars>>

\* the check that has just returned is remembered
Mark ==
    /\ q_pc = "returned"
    /\ last.op = "check"
    /\ first = NoCall
    /\ first' = last
    /\ UNCHANGED <<textstat_lang, q_pc, last, between>>
    /\ UNCHANGED <<gen_vars, host_vars>>

QNext ==
    \/ \E c \in Contents, l \in Languages, f \in Faults : Check(c, l, f)
    \/ \E t \in Contents : Readability(t)
    \/ \E t \in Contents : FindOverused(t)
    \/ \E t \in Contents : AnalyzeKeywords(t)
    \/ Forget

SpecQuality == Init /\ [][QNext]_vars

\* the texts of the repeated checks
IdemContents ==
    {<<>>, <<"privod", DOT>>, <<"strajkbol", "na", DOT>>,
     Article(min_headings, min_paragraphs, min_word_count, SentenceWords, MonoPattern)}

IdemNext ==
    \/ \E c \in IdemContents, l \in Languages, f \in Faults : Check(c, l, f)
    \/ Mark
    \/ Forget

SpecIdem == Init /\ [][IdemNext]_vars

\* ------------------------------------------------------------------------
\* Concurrent requests of the web application (src/src/web_app.py)
\* ------------------------------------------------------------------------
\* Each request is handled in a thread of its own; all threads use the one
\* article_generator of the module, so one ArticleQualityChecker, one
\* LanguageModelService and the one textstat module.  A thread can be
\* suspended between any two of its reads and writes of shared state.

\* the texts and languages of the concurrent checks
ThreadContents ==
    {<<"privod", DOT>>, <<"strajkbol", "na", DOT>>,
     Article(min_headings, min_paragraphs, min_word_count, SentenceWords, MonoPattern)}

\* the metrics of _analyze_readability when textstat is configured with
\* flesch_lang at the call of flesch_reading_ease and with smog_lang at the
\* call of smog_index
ReadabilityRead(content, flesch_lang, smog_lang) ==
    Updated(<<_analyze_readability(content, flesch_lang, FALSE),
              [smog_index |-> smog_index(content, smog_lang)]>>)

\* a thread enters comprehensive_check(c, l): the structure analysis reads
\* the content only
CheckEnter(t, c, l) ==
    /\ chk[t].pc = "idle"
    /\ chk' = [chk EXCEPT ![t] = [pc |-> "entered", content |-> c, language |-> l]]
    /\ UNCHANGED <<gen_vars, q_vars, req, art, daily>>

\* the thread runs textstat.set_lang(...) of _analyze_readability
CheckSetLang(t) ==
    /\ chk[t].pc = "entered"
    /\ textstat_lang' = ConfiguredLang(chk[t].language, textstat_lang)
    /\ chk' = [chk EXCEPT ![t].pc = "configured"]
    /\ UNCHANGED <<gen_vars, q_pc, last, first, between, req, art, daily>>

\* the thread runs textstat.flesch_reading_ease(content): textstat scores
\* with the language it is configured with now
CheckFlesch(t) ==
    /\ chk[t].pc = "configured"
    /\ chk' = [chk EXCEPT ![t] =
                  [pc |-> "scored", content |-> chk[t].content,
                   language |-> chk[t].language, flesch_lang |-> textstat_lang]]
    /\ UNCHANGED <<gen_vars, q_vars, req, art, daily>>

\* the thread runs textstat.smog_index(content) and the rest of
\* comprehensive_check, which reads its own metrics only, and returns
CheckReturn(t) ==
    /\ chk[t].pc = "scored"
    /\ \E r \in {Aggregate(_analyze_structure(chk[t].content),
                            ReadabilityRead(chk[t].content, chk[t].flesch_lang,
                                            textstat_lang),
                            _extract_keywords(chk[t].content, chk[t].language,
                                              FALSE),
                            "none")} :
           chk' = [chk EXCEPT ![t] =
                      [pc |-> "returned", content |-> chk[t].content,
                       language |-> chk[t].language,
                       passed |-> r.passed, report |-> r.report]]
    /\ UNCHANGED <<gen_vars, q_vars, req, art, daily>>

\* the request of the thread is answered
CheckLeave(t) ==
    /\ chk[t].pc = "returned"
    /\ chk' = [chk EXCEPT ![t] = [pc |-> "idle"]]
    /\ UNCHANGED <<gen_vars, q_vars, req, art, daily>>

ChecksNext ==
    \/ \E t \in Threads, c \in ThreadContents, l \in Languages : CheckEnter(t, c, l)
    \/ \E t \in Threads : CheckSetLang(t)
    \/ \E t \in Threads : CheckFlesch(t)
    \/ \E t \in Threads : CheckReturn(t)
    \/ \E t \in Threads : CheckLeave(t)

SpecChecks == Init /\ [][ChecksNext]_vars

\* a bug: the server handles one request at a time, a thread runs only
\* when no other request is under way
CanRun_OneAtATime(t) ==
    \A u \in Threads \ {t} : req[u].pc = "idle"

\* whether thread t can take its next step: app.run(...) serves each request
\* in a thread of its own, and neither generate_text nor time.sleep takes a
\* lock, so it always can
CanRun(t) == TRUE

\* the waits the other threads are in: the thread and the attempt it waits
\* after
Sleeping(t) ==
    {<<u, req[u].attempt>> : u \in {v \in Threads \ {t} : req[v].pc = "sleep"}}

\* a request thread calls generate_text; max_retries is n (the configured
\* article_settings.max_retries)
ReqCall(t, n) ==
    /\ CanRun(t)
    /\ req[t].pc = "idle"
    /\ req' = [req EXCEPT ![t] =
                  [pc |-> "loop", max_retries |-> n, attempt |-> 0,
                   result |-> None, began_during |-> Sleeping(t)]]
    /\ UNCHANGED <<gen_vars, q_vars, chk, art, daily>>

\* requests.post(...) of the thread's attempt
ReqSend(t) ==
    /\ CanRun(t)
    /\ req[t].pc = "loop"
    /\ req[t].attempt < req[t].max_retries
    /\ req' = [req EXCEPT ![t].pc = "await"]
    /\ UNCHANGED <<gen_vars, q_vars, chk, art, daily>>

\* requests.post ends with outcome o; the rest of the loop body
ReqReceive(t, o) ==
    /\ CanRun(t)
    /\ req[t].pc = "await"
    /\ LET try == ServiceTry(o)
           h == IF ~try.ret /\ try.exc # None THEN ServiceExcept(try.exc)
                ELSE "continue"
       IN  req' = [req EXCEPT ![t] =
                      IF try.ret
                      THEN [@ EXCEPT !.pc = "done", !.result = try.value]
                      ELSE IF h = "propagate"
                      THEN [@ EXCEPT !.pc = "done", !.result = "raised"]
                      ELSE IF @.attempt < @.max_retries - 1
                      THEN [@ EXCEPT !.pc = "sleep"]
                      ELSE [@ EXCEPT !.pc = "loop", !.attempt = @ + 1]]
    /\ UNCHANGED <<gen_vars, q_vars, chk, art, daily>>

\* time.sleep(wait_time) of the thread returns
ReqWake(t) ==
    /\ CanRun(t)
    /\ req[t].pc = "sleep"
    /\ req' = [req EXCEPT ![t].pc = "loop", ![t].attempt = @ + 1]
    /\ UNCHANGED <<gen_vars, q_vars, chk, art, daily>>

\* the thread's loop is exhausted: return None
ReqReturnNone(t) ==
    /\ CanRun(t)
    /\ req[t].pc = "loop"
    /\ req[t].attempt >= req[t].max_retries
    /\ req' = [req EXCEPT ![t].pc = "done", ![t].result = None]
    /\ UNCHANGED <<gen_vars, q_vars, chk, art, daily>>

\* the request of the thread is answered
ReqLeave(t) ==
    /\ CanRun(t)
    /\ req[t].pc = "done"
    /\ req' = [req EXCEPT ![t] = [pc |-> "idle"]]
    /\ UNCHANGED <<gen_vars, q_vars, chk, art, daily>>

HostNext ==
    \/ \E t \in Threads, n \in 0..MaxRetriesBound : ReqCall(t, n)
    \/ \E t \in Threads : ReqSend(t)
    \/ \E t \in Threads, o \in Outcomes : ReqReceive(t, o)
    \/ \E t \in Threads : ReqWake(t)
    \/ \E t \in Threads : ReqReturnNone(t)
    \/ \E t \in Threads : ReqLeave(t)

SpecHost == Init /\ [][HostNext]_vars

\* ------------------------------------------------------------------------
\* ArticleGenerator.generate_article (src/src/core/article_generator.py) and
\* the loop body of generate_daily_articles (src/main.py)
\* ------------------------------------------------------------------------
\* what the generation can return: None, or a text (the empty one included)
NoText == [ret |-> "None"]
Generated == {NoText} \cup {[ret |-> "text", text |-> t] : t \in IdemContents}

\* Python truthiness of what generation returned
HasText(content) == content # NoText /\ content.text # <<>>

\* generate_article(topic, l, category) of implementation i is called:
\* "core" is generate_article of src/src/core, "daily" one iteration of the
\* language loop of generate_daily_articles
ArticleCall(i, l) ==
    /\ art.pc = "idle"
    /\ art' = [pc |-> "generating", impl |-> i, language |-> l, checks |-> 0,
               saves |-> 0]
    /\ UNCHANGED <<gen_vars, q_vars, chk, req, daily>>

\* a bug: only None ends the call, an empty text is checked and saved
ArticleGenerated_OnlyNone(content) ==
    /\ art.pc = "generating"
    /\ art' = IF content = NoText
              THEN [art EXCEPT !.pc = "returned"]
                       @@ [content |-> content, result |-> NoText]
              ELSE [art EXCEPT !.pc = "checking"] @@ [content |-> content]
    /\ UNCHANGED <<gen_vars, q_vars, chk, req, daily>>

\* generation has returned content;  if not content: return None
ArticleGenerated(content) ==
    /\ art.pc = "generating"
    /\ art' = IF ~HasText(content)
              THEN [art EXCEPT !.pc = "returned"]
                       @@ [content |-> content, result |-> NoText]
              ELSE [art EXCEPT !.pc = "checking"] @@ [content |-> content]
    /\ UNCHANGED <<gen_vars, q_vars, chk, req, daily>>

\* the quality check of the text is made: comprehensive_check of
\* ArticleQualityChecker in the core (f raised inside), the checker of
\* src/main.py with verdict v in the daily run
ArticleChecked(f, v) ==
    /\ art.pc = "checking"
    /\ art.impl = "core" => v
    /\ art.impl = "daily" => f = "none"
    /\ textstat_lang' = IF art.impl = "daily" \/ f = "structure" THEN textstat_lang
                        ELSE ConfiguredLang(art.language, textstat_lang)
    /\ \E r \in {IF art.impl = "daily" THEN [passed |-> v]
                  ELSE comprehensive_check(art.content.text, art.language, f,
                                           textstat_lang')} :
           art' = [art EXCEPT !.pc = "saving", !.checks = @ + 1]
                      @@ [passed |-> r.passed]
    /\ UNCHANGED <<gen_vars, q_pc, last, first, between, chk, req, daily>>

\* the metadata is built with validation_passed=is_valid and the article is
\* saved; ok: the files could be written.  A failed write leaves the core's
\* generate_article through its except clause (return None); in the daily
\* run save_article_multiple_formats catches it and the loop goes on
ArticleSaved(ok) ==
    /\ art.pc = "saving"
    /\ art' = [art EXCEPT !.pc = "returned", !.saves = @ + 1]
                  @@ [written |-> ok,
                      result |-> IF art.impl = "core" /\ ~ok THEN NoText
                                 ELSE [ret |-> "article",
                                       content |-> art.content.text,
                                       validation_passed |-> art.passed]]
    /\ UNCHANGED <<gen_vars, q_vars, chk, req, daily>>

\* the caller is done with the article
ArticleForget ==
    /\ art.pc = "returned"
    /\ art' = [pc |-> "idle"]
    /\ UNCHANGED <<gen_vars, q_vars, chk, req, daily>>

ArticleNext ==
    \/ \E i \in {"core", "daily"}, l \in Languages : ArticleCall(i, l)
    \/ \E content \in Generated : ArticleGenerated(content)
    \/ \E f \in Faults, v \in BOOLEAN : ArticleChecked(f, v)
    \/ \E ok \in BOOLEAN : ArticleSaved(ok)
    \/ ArticleForget

SpecArticle == Init /\ [][ArticleNext]_vars

\* ------------------------------------------------------------------------
\* The daily run of src/main.py: topics, their mapping, generate_daily_articles
\* ------------------------------------------------------------------------
\* load_topics()["ua"]: the topics of each category (transliterated letter by
\* letter)
load_topics ==
    ("obladnannq" :>
        <<"Vibyr_takticnogo_zileta_dlq_strajkbolu",
          "Zahisne_sporqdzennq_dlq_novackyv",
          "Modernyzacyq_gazovih_privodyv",
          "Vibyr_opticnogo_pricylu",
          "Doglqd_za_akumulqtorami_LiPo",
          "Sistemi_rozvantazennq_ta_nosynnq_sporqdzennq",
          "Vibyr_pravilqnogo_woloma_ta_zahistu_golovi">>)
    @@ ("tehnycne" :>
        <<"Nalawtuvannq_hop-up_v_elektroprivodah",
          "Tunyng_vnutrywnyh_detalej_privodu",
          "Dyagnostika_nespravnostej_privodyv",
          "Modernyzacyq_stvola_ta_rezinki_hop-up",
          "Nalawtuvannq_regulqtora_tisku_v_HPA_sistemah">>)
    @@ ("taktika" :>
        <<"Taktika_vedennq_bou_v_CQB",
          "Kamuflqz_dlq_lysovih_ygor",
          "Snajpersqka_strylqba_v_strajkboly",
          "Komandna_robota_ta_zv_qzok",
          "Pozicyonuvannq_ta_peremywennq_v_komandy",
          "Planuvannq_ta_vikonannq_takticnih_operacyj">>)

\* create_topic_mapping(): the Russian topic of each Ukrainian one
create_topic_mapping ==
    ("Vibyr_takticnogo_zileta_dlq_strajkbolu"
           :> "Vybor_takticeskogo_zileta_dlq_strajkbola")
    @@ ("Zahisne_sporqdzennq_dlq_novackyv"
           :> "Zawitnoe_snarqzenie_dlq_novickov")
    @@ ("Modernyzacyq_gazovih_privodyv"
           :> "Modernizaciq_gazovyh_privodov")
    @@ ("Vibyr_opticnogo_pricylu"
           :> "Vybor_opticeskogo_pricela")
    @@ ("Doglqd_za_akumulqtorami_LiPo"
           :> "Uhod_za_akkumulqtorami_LiPo")
    @@ ("Sistemi_rozvantazennq_ta_nosynnq_sporqdzennq"
           :> "Sistemy_razgruzki_i_noweniq_snarqzeniq")
    @@ ("Vibyr_pravilqnogo_wolema_ta_zahistu_golovi"
           :> "Vybor_pravilqnogo_wlema_i_zawity_golovy")
    @@ ("Nalawtuvannq_hop-up_v_elektroprivodah"
           :> "Nastrojka_hop-up_v_elektroprivodah")
    @@ ("Tunyng_vnutrywnyh_detalej_privodu"
           :> "Tuning_vnutrennih_detalej_privoda")
    @@ ("Dyagnostika_nespravnostej_privodyv"
           :> "Diagnostika_neispravnostej_privodov")
    @@ ("Modernyzacyq_stvola_ta_rezinki_hop-up"
           :> "Modernizaciq_stvola_i_rezinki_hop-up")
    @@ ("Nalawtuvannq_regulqtora_tisku_v_HPA_sistemah"
           :> "Nastrojka_regulqtora_davleniq_v_HPA_sistemah")
    @@ ("Taktika_vedennq_bou_v_CQB"
           :> "Taktika_vedeniq_boq_v_CQB")
    @@ ("Kamuflqz_dlq_lysovih_ygor"
           :> "Kamuflqz_dlq_lesnyh_igr")
    @@ ("Snajpersqka_strylqba_v_strajkboly"
           :> "Snajperskaq_strelqba_v_strajkbole")
    @@ ("Komandna_robota_ta_zv_qzok"
           :> "Komandnaq_rabota_i_svqzq")
    @@ ("Pozicyonuvannq_ta_peremywennq_v_komandy"
           :> "Pozicionirovanie_i_peremewenie_v_komande")
    @@ ("Planuvannq_ta_vikonannq_takticnih_operacyj"
           :> "Planirovanie_i_vypolnenie_takticeskih_operacij")

\* get_russian_category: category_mapping.get(ua_category, ua_category)
get_russian_category(ua_category) ==
    IF ua_category = "obladnannq" THEN "snarqzenie"
    ELSE IF ua_category = "tehnycne" THEN "tehniceskoe"
    ELSE IF ua_category = "taktika" THEN "taktika"
    ELSE ua_category

\* the languages of the daily run, in the order of the loop
DailyLanguages == <<"ua", "ru">>

\* generate_daily_articles() is called: results = {"ua": [], "ru": []}
DailyCall ==
    /\ daily.pc = "idle"
    /\ daily' = [pc |-> "selecting", results |-> [ua |-> FALSE, ru |-> FALSE]]
    /\ UNCHANGED <<gen_vars, q_vars, chk, req, art>>

\* select_topic_by_category("ua"): random.choice of a category, then of a
\* topic of that category
SelectTopic(category, k) ==
    /\ daily.pc = "selecting"
    /\ category \in DOMAIN load_topics
    /\ k \in DOMAIN load_topics[category]
    /\ daily' = [daily EXCEPT !.pc = "mapping"]
                    @@ [ua_topic |-> load_topics[category][k],
                        ua_category |-> category]
    /\ UNCHANGED <<gen_vars, q_vars, chk, req, art>>

\* ru_topic = topic_mapping.get(ua_topic); if not ru_topic: return results
LookupTopic ==
    /\ daily.pc = "mapping"
    /\ daily' = IF daily.ua_topic \in DOMAIN create_topic_mapping
                THEN [daily EXCEPT !.pc = "generating"]
                         @@ [ru_topic |-> create_topic_mapping[daily.ua_topic],
                             ru_category |-> get_russian_category(daily.ua_category),
                             language |-> 1]
                ELSE [daily EXCEPT !.pc = "returned"] @@ [stopped |-> TRUE]
    /\ UNCHANGED <<gen_vars, q_vars, chk, req, art>>

\* one iteration of  for language in ["ua", "ru"]: the article of the
\* language is generated, checked and saved (saved: files were written)
DailyArticle(saved) ==
    /\ daily.pc = "generating"
    /\ daily' = IF daily.language < Len(DailyLanguages)
                THEN [daily EXCEPT !.results.ua = saved, !.language = @ + 1]
                ELSE [daily EXCEPT !.results.ru = saved, !.pc = "returned"]
                         @@ [stopped |-> FALSE]
    /\ UNCHANGED <<gen_vars, q_vars, chk, req, art>>

\* the caller is done with the results
DailyForget ==
    /\ daily.pc = "returned"
    /\ daily' = [pc |-> "idle"]
    /\ UNCHANGED <<gen_vars, q_vars, chk, req, art>>

DailyNext ==
    \/ DailyCall
    \/ \E category \in DOMAIN load_topics :
           \E k \in DOMAIN load_topics[category] : SelectTopic(category, k)
    \/ LookupTopic
    \/ \E saved \in BOOLEAN : DailyArticle(saved)
    \/ DailyForget

SpecDaily == Init /\ [][DailyNext]_vars

\* ------------------------------------------------------------------------
\* Claims about the retry orchestrator
\* ------------------------------------------------------------------------
IsTimeoutOutcome(o) == o.kind = "exception" /\ o.exc = "Timeout"
IsConnErrOutcome(o) == o.kind = "exception" /\ o.exc = "ConnectionError"
\* status 200 with non-empty content
IsSuccessOutcome(o) ==
    /\ o.kind = "response"
    /\ o.status = 200
    /\ o.body.shape = "content"
    /\ o.body.content # ""
Returned == pc = "done" /\ ~raised

\* C1: when every attempt of generate_text(.., max_retries = n), n >= 1, ends
\* with a timeout, the call sends exactly n requests and returns None (the
\* same holds of call_lm_studio_with_retry).
C1_RetryBudget ==
    (/\ pc = "done"
     /\ max_retries >= 1
     /\ \A k \in DOMAIN outcomes : IsTimeoutOutcome(outcomes[k]))
    => (sent = max_retries /\ Len(outcomes) = max_retries /\ ~raised /\ result = None)

C1_Witness ==
    /\ pc = "done" /\ impl = "service"
    /\ max_retries = MaxRetriesBound
    /\ sent = MaxRetriesBound
    /\ \A k \in DOMAIN outcomes : IsTimeoutOutcome(outcomes[k])
    /\ result = None

\* C2: when the first attempt of generate_text ends with a connection error,
\* the call makes exactly 1 attempt, never sleeps and returns None, whatever
\* max_retries >= 1 is.
C2_FatalShortCircuit ==
    (/\ impl = "service"
     /\ pc = "done"
     /\ max_retries >= 1
     /\ Len(outcomes) >= 1
     /\ IsConnErrOutcome(outcomes[1]))
    => (sent = 1 /\ waits = <<>> /\ ~raised /\ result = None)

\* C3: a successful attempt (status 200, non-empty content) of generate_text
\* is the last thing the call does: it is the last attempt, nothing is in
\* flight or slept after it, and the call has returned its content.
C3_ReturnOnSuccess ==
    impl = "service" =>
        \A k \in DOMAIN outcomes :
            IsSuccessOutcome(outcomes[k]) =>
                /\ k = Len(outcomes)
                /\ sent = k
                /\ in_flight = 0
                /\ Len(waits) = k - 1
                /\ Returned
                /\ result = outcomes[k].body.content

C3_Witness ==
    /\ impl = "service" /\ pc = "done"
    /\ Len(outcomes) = 2
    /\ ~IsSuccessOutcome(outcomes[1])
    /\ IsSuccessOutcome(outcomes[2])
    /\ result = outcomes[2].body.content
    /\ max_retries = 3

\* C4: generate_text never raises: whatever the attempts end with, no
\* exception leaves the call, the value returned is a text or None, and it
\* is None when no attempt succeeded.
C4_NeverRaises ==
    impl = "service" =>
        /\ ~raised
        /\ pc = "done" => result \in Texts \cup {None}
        /\ (pc = "done" /\ \A k \in DOMAIN outcomes : ~IsSuccessOutcome(outcomes[k]))
              => result = None

C4_Witness ==
    /\ impl = "service" /\ pc = "done" /\ ~raised /\ result = None
    /\ max_retries = 3 /\ Len(outcomes) = 3
    /\ outcomes[1].kind = "response" /\ outcomes[1].status = 200
    /\ outcomes[1].body.shape = "malformed"
    /\ outcomes[2].kind = "exception" /\ outcomes[2].exc = "OtherException"
    /\ outcomes[3].kind = "response" /\ outcomes[3].status = 200
    /\ outcomes[3].body.shape = "not_object"

\* ------------------------------------------------------------------------
\* Claims about the quality checker and the readability scorer
\* ------------------------------------------------------------------------
\* comprehensive_check has returned without an exception raised inside it
CheckReturned == q_pc = "returned" /\ last.op = "check" /\ last.fault = "none"

\* the thresholds the metrics of a report violate, in the order length,
\* readability, headings, paragraphs, overuse (overuse: some word of the text
\* checked exceeds the 5% density of _find_overused_words)
Thresholds == <<"length", "readability", "headings", "paragraphs", "overuse">>
Violated(kind, content, m) ==
    CASE kind = "length" -> m.word_count < min_word_count
      [] kind = "readability" -> m.readability_score < 100 * min_readability
      [] kind = "headings" -> m.headings_count < min_headings
      [] kind = "paragraphs" -> m.paragraphs_count < min_paragraphs
      [] kind = "overuse" -> _find_overused_words(content) # <<>>
ViolatedThresholds(content, m) ==
    SelectSeq(Thresholds, LAMBDA kind : Violated(kind, content, m))
ErrorKinds(m) == [k \in DOMAIN m.errors |-> m.errors[k].kind]

\* C5: for every content and language, the passed flag comprehensive_check
\* returns is true if and only if every threshold is satisfied: word count,
\* readability, headings, paragraphs, and no word above the overuse density.
\* The code does not look at overuse: an article of one repeated word passes.
C5_PassedIffAllThresholds ==
    CheckReturned =>
        (last.passed <=> ViolatedThresholds(last.content, last.report) = <<>>)

\* C6: the errors of the report returned by comprehensive_check have one
\* entry for each violated threshold and none for a satisfied one, in the
\* order length, readability, headings, paragraphs, overuse; a short text
\* without headings fails with the length error before the headings error.
\* The code has no overuse entry.
C6_ErrorsListViolations ==
    CheckReturned =>
        /\ ErrorKinds(last.report) = ViolatedThresholds(last.content, last.report)
        /\ (last.report.word_count < min_word_count /\ last.report.headings_count = 0)
               => /\ ~last.passed
                  /\ \E i, j \in DOMAIN last.report.errors :
                         /\ i < j
                         /\ last.report.errors[i].kind = "length"
                         /\ last.report.errors[j].kind = "headings"

\* C7: comprehensive_check never raises: when a sub-analysis (structure,
\* readability, keywords, report rendering) throws, the call still returns
\* passed = false and a report whose errors list has an entry.  The code
\* swallows an exception of the keyword analysis without a trace.
C7_FaultGivesFailingReport ==
    (q_pc = "returned" /\ last.op = "check" /\ last.fault # "none") =>
        /\ ~last.passed
        /\ "errors" \in DOMAIN last.report
        /\ last.report.errors # <<>>

\* C8: two calls of comprehensive_check with the same content and language
\* (and the same exception raised inside, if any) return the same passed and
\* the same report, whatever checks ran between them.
C8_Idempotent ==
    (/\ q_pc = "returned" /\ first # NoCall /\ last.op = "check"
     /\ last.content = first.content
     /\ last.language = first.language
     /\ last.fault = first.fault)
        => last.passed = first.passed /\ last.report = first.report

\* C8 happens: an article is checked, a check in another language runs, and
\* the article is checked again in the first language
C8_Witness ==
    /\ q_pc = "returned" /\ first # NoCall /\ last.op = "check"
    /\ last.content = first.content /\ Len(last.content) > MaxTokens
    /\ last.language = first.language
    /\ last.fault = "none" /\ first.fault = "none"
    /\ \E l \in between : SetLang(l) # SetLang(first.language)
    /\ last.passed
    /\ last.report = first.report

\* C9: the readability score is in the range [0, 10]: both the value of
\* TextAnalyzer._calculate_readability (with its +2.0 for more than 5
\* sentences) and the readability_score comprehensive_check puts in the
\* report (kept in hundredths).  The report's score is textstat's Flesch
\* reading ease, on another scale.
C9_ScoreInRange ==
    /\ (q_pc = "returned" /\ last.op = "readability" /\ ~last.raised) =>
           /\ last.score.den > 0
           /\ 0 <= last.score.num
           /\ last.score.num <= 10 * last.score.den
    /\ CheckReturned =>
           /\ 0 <= last.report.readability_score
           /\ last.report.readability_score <= 1000

\* the text has no sentence, or no word
NoSentences(text) == \A i \in DOMAIN text : ~SentenceStart(text, i)
NoWords(text) == \A i \in DOMAIN text : ~SplitStart(text, i)

CountedWords == FilteredPositions(last.content, last.language)
KeywordCount(w) ==
    Cardinality({i \in CountedWords : Lower(last.content[i]) = w})
KeywordFirst(w) ==
    CHOOSE i \in CountedWords :
        /\ Lower(last.content[i]) = w
        /\ \A j \in CountedWords : j < i => Lower(last.content[j]) # w

\* C11: the keywords list of _extract_keywords has at most 20 entries, is
\* in the order of non-increasing frequency, and has words of equal frequency
\* in the order of their first occurrence in the text.
C11_TopKeywordsOrdered ==
    CheckReturned =>
        LET keywords == last.report.keywords
        IN  /\ Len(keywords) <= TopKeywords
            /\ \A i, j \in DOMAIN keywords :
                   i < j =>
                       \/ KeywordCount(keywords[i]) > KeywordCount(keywords[j])
                       \/ /\ KeywordCount(keywords[i]) = KeywordCount(keywords[j])
                          /\ KeywordFirst(keywords[i]) < KeywordFirst(keywords[j])

\* C11 happens: a text with more than 20 different words was checked, the
\* list is cut to 20, the first keyword is more frequent than the second, and
\* two neighbours further on are equally frequent
C11_Witness ==
    /\ CheckReturned
    /\ Cardinality({Lower(last.content[i]) : i \in CountedWords}) > TopKeywords
    /\ Len(last.report.keywords) = TopKeywords
    /\ KeywordCount(last.report.keywords[1]) > KeywordCount(last.report.keywords[2])
    /\ \E i \in 2..(TopKeywords - 1) :
           KeywordCount(last.report.keywords[i])
               = KeywordCount(last.report.keywords[i + 1])

\* _find_overused_words has returned
OverusedReturned == q_pc = "returned" /\ last.op = "overused"

\* the qualifying tokens of a text: the words of more than 3 letters that
\* are no stop word of either language; and how often w is among them
Qualifying(text) ==
    {i \in CleanWords(text) :
        /\ Len(text[i]) > 3
        /\ Lower(text[i]) \notin StopWordsRu \cup StopWordsUa}
Frequency(text, w) == Cardinality({i \in Qualifying(text) : Lower(text[i]) = w})
Flagged == {last.words[k] : k \in DOMAIN last.words}

\* C12: overuse detection flags exactly the qualifying tokens (more than 3
\* letters, no stop word) whose frequency divided by the number of qualifying
\* tokens exceeds 0.05, also a token that is at most 5% of all the words.
\* The code divides by the number of all the words.
C12_OveruseOverFiltered ==
    OverusedReturned =>
        Flagged = {w \in {Lower(last.text[i]) : i \in Qualifying(last.text)} :
                      20 * Frequency(last.text, w)
                          > Cardinality(Qualifying(last.text))}

\* C13: the comparison is strict: a token whose density is exactly the
\* threshold (20 times its frequency is the token total, be that the total of
\* the qualifying tokens or of all the words) is not in overused_words.
C13_StrictThreshold ==
    OverusedReturned =>
        \A w \in {Lower(last.text[i]) : i \in Qualifying(last.text)} :
            (\/ 20 * Frequency(last.text, w) = Cardinality(Qualifying(last.text))
             \/ 20 * Frequency(last.text, w) = Cardinality(CleanWords(last.text)))
                => w \notin Flagged

\* C13 happens: in a text of 40 words one word is seen three times and is
\* flagged, the others twice, exactly one twentieth, and are not
C13_Witness ==
    /\ OverusedReturned
    /\ Cardinality(CleanWords(last.text)) = 2 * TopKeywords
    /\ Flagged # {}
    /\ \E w \in {Lower(last.text[i]) : i \in Qualifying(last.text)} :
           /\ 20 * Frequency(last.text, w) = Cardinality(CleanWords(last.text))
           /\ w \notin Flagged

\* ------------------------------------------------------------------------
\* Claims about empty answers, the backoff and the order of the attempts
\* ------------------------------------------------------------------------
\* a status-200 answer whose content is missing or empty
IsEmptyOutcome(o) ==
    /\ o.kind = "response" /\ o.status = 200
    /\ \/ o.body.shape \in {"no_choices", "no_message", "null_content"}
       \/ o.body.shape = "content" /\ o.body.content = ""

\* C14: a status-200 answer with missing or empty content is never returned
\* as the result: the attempt is a failure, followed by the backoff and
\* another attempt while the budget lasts, and the text returned is never the
\* empty string.  call_lm_studio_with_retry returns the content as it is.
C14_EmptyIsFailure ==
    /\ Returned => result # ""
    /\ \A k \in DOMAIN outcomes :
           IsEmptyOutcome(outcomes[k]) =>
               /\ (k = Len(outcomes) /\ pc = "done")
                      => (result = None /\ k = max_retries)
               /\ (k = Len(outcomes) /\ k < max_retries)
                      => (pc \in {"sleep", "loop", "await"} /\ Len(waits) = k)
               /\ k < Len(outcomes) => Len(waits) >= k

\* the powers of two, written out
PowersOfTwo == <<1, 2, 4, 8, 16, 32, 64, 128>>

\* C15: after the failed attempt with index i (from 0) that is not the last
\* one the call waits exactly 2^i before attempt i+1; after the last attempt
\* (i = max_retries - 1) it does not wait.
C15_BackoffSchedule ==
    /\ \A k \in DOMAIN waits : waits[k] = PowersOfTwo[k]
    /\ pc = "await" => Len(waits) = sent - 1
    /\ pc = "sleep" => (Len(waits) = Len(outcomes) /\ Len(outcomes) < max_retries)
    /\ Len(waits) <= Len(outcomes)
    /\ (max_retries >= 1 /\ Len(outcomes) >= max_retries)
           => Len(waits) = max_retries - 1

\* C15 happens: every attempt of a call with the largest budget failed, the
\* call returned after having waited between the attempts only
C15_Witness ==
    /\ impl = "service" /\ pc = "done" /\ result = None
    /\ max_retries = MaxRetriesBound
    /\ Len(outcomes) = MaxRetriesBound
    /\ Len(waits) = MaxRetriesBound - 1
    /\ waits[Len(waits)] = PowersOfTwo[MaxRetriesBound - 1]

\* C16: the attempts of one call are strictly sequential: a request is sent
\* only when the one before has ended and the wait after it is over, and
\* never are two requests of the call in flight.
C16_Sequential ==
    /\ in_flight \in {0, 1}
    /\ in_flight = 1 <=> pc = "await"
    /\ sent = Len(outcomes) + in_flight
    /\ pc = "await" => (attempt = sent - 1 /\ Len(waits) = sent - 1)

\* C16 happens: the third request of a call is in flight, two attempts and
\* two waits lie behind it
C16_Witness ==
    /\ impl = "service" /\ pc = "await" /\ in_flight = 1
    /\ sent = 3 /\ Len(outcomes) = 2 /\ Len(waits) = 2

\* ------------------------------------------------------------------------
\* Claims about concurrent requests
\* ------------------------------------------------------------------------
\* C17: concurrent quality checks do not interfere: a comprehensive_check
\* that runs while another one does (with another language code above all)
\* returns, under every interleaving, the report it returns when it runs
\* alone.  Both set the language of the one textstat module before scoring.
C17_ChecksIndependent ==
    \A t \in Threads :
        chk[t].pc = "returned" =>
            [passed |-> chk[t].passed, report |-> chk[t].report]
                = comprehensive_check(chk[t].content, chk[t].language, "none",
                                      SetLang(chk[t].language))

IsRetryableFailure(o) ==
    \/ o.kind = "exception" /\ o.exc = "Timeout"
    \/ o.kind = "response" /\ o.status # 200
    \/ o.kind = "response" /\ o.status = 200
          /\ o.body.shape \in {"malformed", "not_object"}
    \/ IsEmptyOutcome(o)

\* C19: in generate_text every failed attempt that is a timeout, a non-200
\* status, malformed JSON or empty content, made while fewer than max_retries
\* attempts have been made, is followed by another attempt: the call is in the
\* backoff wait that its return leads out of, or about to send the next
\* request, or has sent it; it never leaves the loop.
C19_RetryableNeverEndsLoop ==
    impl = "service" =>
        \A k \in DOMAIN outcomes :
            (IsRetryableFailure(outcomes[k]) /\ k < max_retries) =>
                \/ Len(outcomes) > k
                \/ k = Len(outcomes) /\ pc = "await" /\ sent = k + 1
                \/ k = Len(outcomes) /\ pc = "sleep" /\ attempt = k - 1
                      /\ ENABLED Wake
                \/ k = Len(outcomes) /\ pc = "loop" /\ attempt = k
                      /\ ENABLED SendRequest

\* C19 happens: generate_text went through a timeout and then a non-200
\* answer (or the other way round), made the attempt after each, and the last
\* attempt of the budget gave the text
C19_Witness ==
    /\ impl = "service" /\ pc = "done" /\ result \in Texts
    /\ max_retries = MaxRetriesBound
    /\ Len(outcomes) = MaxRetriesBound
    /\ \A k \in 1..(MaxRetriesBound - 1) : IsRetryableFailure(outcomes[k])
    /\ \E j, k \in 1..(MaxRetriesBound - 1) :
           /\ outcomes[j].kind = "exception"
           /\ outcomes[k].kind = "response"
    /\ Len(waits) = MaxRetriesBound - 1

\* the metrics of the three sub-analyses a report carries
SubAnalysisKeys ==
    {"word_count", "headings_count", "paragraphs_count",
     "readability_score", "keywords"}

\* C20: all analyses of comprehensive_check always execute: when one
\* sub-analysis raises, the report returned still holds the metrics of the
\* others, not only an error entry.  The code leaves the whole body through
\* the outer handler when the structure analysis or the report rendering
\* raises, and returns a report that holds nothing but errors.
C20_AllAnalysesRun ==
    (q_pc = "returned" /\ last.op = "check" /\ last.fault # "none") =>
        SubAnalysisKeys \subseteq DOMAIN last.report

\* ------------------------------------------------------------------------
\* Claims about the filter and the densities of the keywords
\* ------------------------------------------------------------------------
\* _analyze_keywords has returned
KeywordsReturned == q_pc = "returned" /\ last.op = "keywords"

\* comprehensive_check has returned a report that holds keywords
KeywordsReported ==
    /\ q_pc = "returned" /\ last.op = "check"
    /\ "keywords" \in DOMAIN last.report

\* C21: keyword extraction keeps only qualifying tokens: no token of 3 letters
\* or fewer and no stop word of the language selected ('ru', 'ua') is among
\* the keywords, of _extract_keywords and of _analyze_keywords alike.
\* _extract_keywords takes the words of 3 letters and more.
C21_OnlyQualifyingKeywords ==
    /\ (KeywordsReported /\ last.language \in {"ru", "ua"}) =>
           \A k \in DOMAIN last.report.keywords :
               /\ Len(last.report.keywords[k]) > 3
               /\ last.report.keywords[k] \notin stop_words(last.language)
    /\ KeywordsReturned =>
           \A e \in last.density :
               /\ Len(e.word) > 3
               /\ e.word \notin StopWordsRu \cup StopWordsUa

\* the qualifying tokens of the text checked under its language, and how often
\* w is among them
QualifyingChecked ==
    {i \in CleanWords(last.content) :
        /\ Len(last.content[i]) > 3
        /\ Lower(last.content[i]) \notin stop_words(last.language)}
FrequencyChecked(w) ==
    Cardinality({i \in QualifyingChecked : Lower(last.content[i]) = w})

\* the sum of the numerators of a set of densities
RECURSIVE SumNum(_)
SumNum(ds) ==
    IF ds = {} THEN 0
    ELSE LET e == CHOOSE x \in ds : TRUE IN e.density.num + SumNum(ds \ {e})

\* C22: the density reported for a word is its frequency divided by the number
\* of qualifying tokens (more than 3 letters, no stop word), so the densities
\* of all the qualifying words sum to 1; in _extract_keywords for the top
\* words, in _analyze_keywords for all; a text with no qualifying token gives
\* an empty result.  _analyze_keywords divides by the number of all the words.
C22_DensityOverFiltered ==
    /\ (CheckReturned /\ last.language \in {"ru", "ua"}) =>
           \A k \in DOMAIN last.report.keywords :
               last.report.keyword_density[k]
                   = Ratio(FrequencyChecked(last.report.keywords[k]),
                           Cardinality(QualifyingChecked))
    /\ KeywordsReturned =>
           /\ \A e \in last.density :
                  e.density = Ratio(Frequency(last.text, e.word),
                                    Cardinality(Qualifying(last.text)))
           /\ Qualifying(last.text) = {} => last.density = {}
           /\ last.density # {} =>
                  SumNum(last.density) = Cardinality(Qualifying(last.text))

\* ------------------------------------------------------------------------
\* Claims about the headings and the language fallback
\* ------------------------------------------------------------------------
\* position i opens a capitalised standalone line without markup: a line of
\* words only (no "#", no full stop) whose first word is capitalised
PlainHeadingAt(c, i) ==
    /\ LineStart(c, i)
    /\ IsWord(c[i]) /\ Lower(c[i]) # c[i]
    /\ \E j \in i..Len(c) :
           /\ j = Len(c) \/ IsBreak(c[j + 1])
           /\ \A k \in i..j : IsWord(c[k])

\* C23: headings_count counts both forms of heading, the lines with leading
\* "#" and the capitalised standalone lines without markup.  The code counts
\* the matches of ^#+\s+.+$ only.
C23_BothHeadingForms ==
    CheckReturned =>
        last.report.headings_count
            = Cardinality({i \in DOMAIN last.content :
                               \/ HeadingAt(last.content, i)
                               \/ PlainHeadingAt(last.content, i)})

\* C24: for a language code that is no supported locale every
\* locale-dependent step falls back to 'ru': the check returns the keywords
\* and the readability that the check of the same content under 'ru' returns.
\* The stop words of an unknown code are the empty set, not those of 'ru'.
C24_UnknownFallsBackToRu ==
    (CheckReturned /\ last.language \notin {"ru", "ua"}) =>
        \E ru \in {comprehensive_check(last.content, "ru", "none", SetLang("ru"))} :
            /\ last.report.readability_score = ru.report.readability_score
            /\ last.report.readability_level = ru.report.readability_level
            /\ last.report.keywords = ru.report.keywords
            /\ last.report.keyword_density = ru.report.keyword_density

\* ------------------------------------------------------------------------
\* Claims about the termination and the bounds of the retry loop
\* ------------------------------------------------------------------------
\* C25: provided every request answers or hits its timeout, every call of
\* generate_text (and of call_lm_studio_with_retry) eventually returns a text
\* or None: the retry loop never runs forever.
C25_Terminates == (pc # "idle") ~> Returned

\* C25 happens: call_lm_studio_with_retry has used up its whole budget, waited
\* between the attempts and returned None
C25_Witness ==
    /\ impl = "legacy" /\ Returned /\ result = None
    /\ max_retries = MaxRetriesBound
    /\ sent = MaxRetriesBound
    /\ Len(waits) = MaxRetriesBound - 1

\* C26: in every execution of generate_text the requests sent never exceed
\* max_retries and the backoff waits never exceed max_retries - 1; with
\* max_retries <= 0 no request is sent, no wait happens and the result is None.
C26_AttemptsBounded ==
    /\ sent <= Max(max_retries, 0)
    /\ Len(waits) <= Max(max_retries - 1, 0)
    /\ (pc # "idle" /\ max_retries <= 0) =>
           /\ sent = 0 /\ waits = <<>>
           /\ pc \in {"loop", "done"}
           /\ pc = "done" => (result = None /\ ~raised)

\* C26 happens: generate_text was called with a negative max_retries and has
\* returned None
C26_Witness ==
    /\ impl = "service" /\ Returned
    /\ max_retries < 0
    /\ sent = 0 /\ waits = <<>> /\ result = None

\* ------------------------------------------------------------------------
\* Claims about generate_article
\* ------------------------------------------------------------------------
\* C27: in generate_article the quality check and the save happen exactly
\* when generation returned a non-empty text: after None or an empty text
\* neither is called and the result is None; after a text both are called
\* once, whatever the verdict of the check, and the article saved carries
\* validation_passed equal to the passed flag of the check.
C27_CheckAndSaveIffText ==
    /\ art.pc \in {"checking", "saving", "returned"} =>
           /\ art.checks <= 1 /\ art.saves <= art.checks
           /\ art.checks = 1 => HasText(art.content)
    /\ art.pc = "returned" =>
           IF HasText(art.content)
           THEN /\ art.checks = 1 /\ art.saves = 1
                /\ art.written =>
                       /\ art.result # NoText
                       /\ art.result.validation_passed = art.passed
           ELSE /\ art.checks = 0 /\ art.saves = 0
                /\ art.result = NoText

\* C27 happens: generate_article of the core got a text that failed the
\* check, saved it all the same and returned the article
C27_Witness ==
    /\ art.pc = "returned" /\ art.impl = "core"
    /\ HasText(art.content)
    /\ ~art.passed
    /\ art.saves = 1 /\ art.written
    /\ art.result # NoText /\ ~art.result.validation_passed

\* ------------------------------------------------------------------------
\* Claims about the rendered report
\* ------------------------------------------------------------------------
\* C28: the html_report of the report returned by comprehensive_check agrees
\* with the errors of the same report: its problems section lists each error
\* exactly when errors is not empty.  The code renders the page before errors
\* is put into the metrics, so the page never has the section.
C28_ReportShowsErrors ==
    (/\ q_pc = "returned" /\ last.op = "check"
     /\ "html_report" \in DOMAIN last.report) =>
        last.report.html_report.errors = last.report.errors

\* ------------------------------------------------------------------------
\* Claims about the two retry implementations
\* ------------------------------------------------------------------------
\* the implementation that is not running
Other(i) == IF i = "service" THEN "legacy" ELSE "service"

\* C29: generate_text and call_lm_studio_with_retry are observationally
\* equivalent: with the same max_retries and the same outcomes of the
\* requests they make the same number of attempts, wait the same times and
\* return the same result.  They differ on a connection error (the older one
\* leaves the loop) and on an empty or null content (the older one returns it).
C29_ImplementationsEquivalent ==
    Returned =>
        \E o \in {RunLoop(Other(impl), max_retries, outcomes, 0, <<>>)} :
            /\ ~o.more
            /\ o.sent = sent
            /\ o.waits = waits
            /\ o.result = result

\* ------------------------------------------------------------------------
\* Claims about the daily run
\* ------------------------------------------------------------------------
\* C30: every Ukrainian topic select_topic_by_category('ua') can return is a
\* key of create_topic_mapping, so generate_daily_articles never stops with
\* empty results for want of a translation.  One topic of load_topics is
\* spelled otherwise than its key in the mapping.
C30_EveryTopicMapped ==
    /\ daily.pc = "mapping" => daily.ua_topic \in DOMAIN create_topic_mapping
    /\ daily.pc = "returned" => ~daily.stopped

====
